---- MODULE Spec2Model ----
(***************************************************************************)
(* A model of caddy-libp2p-listener: the "multiaddr" network registration  *)
(* (registerMultiaddrURI, which exists in two source files with different  *)
(* network names and address handling) and the well_known-libp2p HTTP      *)
(* handler (Libp2pHandler: UnmarshalCaddyfile, Provision, ServeHTTP).      *)
(*                                                                         *)
(* Go strings are sequences of one-character strings, so that slicing,     *)
(* strings.LastIndex, strconv.Atoi and the multiaddr text parser are       *)
(* computed and not assumed.  Indices are Go's (0-based) wherever the      *)
(* source compares or slices with them.                                    *)
(***************************************************************************)
EXTENDS Integers, Sequences, FiniteSets, TLC

VARIABLES
    build,             \* which source file's registerMultiaddrURI is compiled in
    call,              \* the registration call: its inputs and what it did
    ParsedProtosMap,   \* Libp2pHandler.ParsedProtosMap
    unmarshalErr,      \* what the last UnmarshalCaddyfile returned
    wellKnownMapping,  \* l.h.WellKnownHandler's protocol -> meta map
    provisioned,       \* history: the maps Provision has merged, oldest first
    served             \* the last ServeHTTP call: its request and what it did

vars == <<build, call, ParsedProtosMap, unmarshalErr, wellKnownMapping,
          provisioned, served>>

regVars == <<build, call>>
handlerVars == <<ParsedProtosMap, unmarshalErr, wellKnownMapping, provisioned, served>>

(***************************************************************************)
(* Bounds                                                                  *)
(***************************************************************************)
\* raw addresses over AddrAlphabet are enumerated up to this length
MaxAddrLen == 3
\* Provision is called at most this many times on the handler
MaxProvisions == 2

(***************************************************************************)
(* Go string primitives                                                    *)
(***************************************************************************)
Digits == {"0", "1", "2", "3", "4", "5", "6", "7", "8", "9"}

DigitVal(c) ==
    CASE c = "0" -> 0 [] c = "1" -> 1 [] c = "2" -> 2 [] c = "3" -> 3
      [] c = "4" -> 4 [] c = "5" -> 5 [] c = "6" -> 6 [] c = "7" -> 7
      [] c = "8" -> 8 [] c = "9" -> 9

\* strings.LastIndex(s, c): 0-based index of the last c in s, -1 when absent
LastIndex(s, c) ==
    IF \E i \in 1..Len(s) : s[i] = c
    THEN (CHOOSE i \in 1..Len(s) :
              s[i] = c /\ \A j \in (i + 1)..Len(s) : s[j] # c) - 1
    ELSE -1

\* s[lo:] with a 0-based lo; Go panics unless 0 <= lo <= len(s)
SliceFromOK(s, lo) == 0 <= lo /\ lo <= Len(s)
SliceFrom(s, lo) == SubSeq(s, lo + 1, Len(s))

\* s[:hi] with a 0-based hi; Go panics unless 0 <= hi <= len(s)
SliceToOK(s, hi) == 0 <= hi /\ hi <= Len(s)
SliceTo(s, hi) == SubSeq(s, 1, hi)

RECURSIVE StripLeadingZeros(_)
StripLeadingZeros(d) ==
    IF Len(d) > 1 /\ d[1] = "0" THEN StripLeadingZeros(Tail(d)) ELSE d

RECURSIVE DigitsValue(_)
DigitsValue(d) ==
    IF d = <<>> THEN 0
    ELSE 10 * DigitsValue(SubSeq(d, 1, Len(d) - 1)) + DigitVal(d[Len(d)])

\* a <= b for digit strings of equal length (lexicographic = numeric)
RECURSIVE DigitsLeq(_, _)
DigitsLeq(a, b) ==
    IF a = <<>> THEN TRUE
    ELSE IF DigitVal(a[1]) < DigitVal(b[1]) THEN TRUE
    ELSE IF DigitVal(a[1]) > DigitVal(b[1]) THEN FALSE
    ELSE DigitsLeq(Tail(a), Tail(b))

MaxInt64Digits == <<"9", "2", "2", "3", "3", "7", "2", "0", "3", "6", "8", "5", "4", "7", "7", "5", "8", "0", "7">>
MinInt64Digits == <<"9", "2", "2", "3", "3", "7", "2", "0", "3", "6", "8", "5", "4", "7", "7", "5", "8", "0", "8">>

\* whether sign and magnitude fit Go's 64-bit int
FitsInt(neg, d) ==
    LET m == StripLeadingZeros(d)
    IN  \/ Len(m) < Len(MaxInt64Digits)
        \/ /\ Len(m) = Len(MaxInt64Digits)
           /\ DigitsLeq(m, IF neg THEN MinInt64Digits ELSE MaxInt64Digits)

\* strconv.Atoi(s): an optional sign, then one or more decimal digits, in the
\* range of int.  The value is computed for numerals of at most nine
\* significant digits, which is all the inputs below contain besides one
\* out-of-range numeral.
Atoi(s) ==
    LET signed == s # <<>> /\ s[1] \in {"+", "-"}
        neg    == s # <<>> /\ s[1] = "-"
        d      == IF signed THEN Tail(s) ELSE s
    IN  IF d = <<>> \/ \E i \in 1..Len(d) : d[i] \notin Digits
        THEN [ok |-> FALSE, err |-> "ErrSyntax", val |-> 0]
        ELSE IF ~FitsInt(neg, d)
        THEN [ok |-> FALSE, err |-> "ErrRange", val |-> 0]
        ELSE [ok  |-> TRUE, err |-> "nil",
              val |-> IF neg THEN 0 - DigitsValue(StripLeadingZeros(d))
                             ELSE DigitsValue(StripLeadingZeros(d))]

\* strings.Split(s, sep) for a one-character sep
RECURSIVE Split(_, _)
Split(s, sep) ==
    IF \E i \in 1..Len(s) : s[i] = sep
    THEN LET i == CHOOSE k \in 1..Len(s) :
                      s[k] = sep /\ \A j \in 1..(k - 1) : s[j] # sep
         IN  <<SubSeq(s, 1, i - 1)>> \o Split(SubSeq(s, i + 1, Len(s)), sep)
    ELSE <<s>>

\* strings.TrimRight(s, c)
RECURSIVE TrimRight(_, _)
TrimRight(s, c) ==
    IF s # <<>> /\ s[Len(s)] = c THEN TrimRight(SubSeq(s, 1, Len(s) - 1), c) ELSE s

(***************************************************************************)
(* multiaddr.NewMultiaddr: the structured-address parser the registration  *)
(* calls.  Three protocols of its table are modelled: ip4 (a dotted-quad   *)
(* value), tcp (a 16-bit port value) and tls (no value).                   *)
(***************************************************************************)
P_ip4 == <<"i", "p", "4">>
P_tcp == <<"t", "c", "p">>
P_tls == <<"t", "l", "s">>

ProtocolNames == {P_ip4, P_tcp, P_tls}
ProtocolHasValue(name) == name \in {P_ip4, P_tcp}

\* one field of a dotted quad: 1..3 digits, no leading zero, at most 255
OctetOK(f) ==
    /\ Len(f) \in 1..3
    /\ \A i \in 1..Len(f) : f[i] \in Digits
    /\ (Len(f) > 1 => f[1] # "0")
    /\ DigitsValue(f) <= 255

\* the ip4 transcoder: net.ParseIP(s).To4()
ParseIP4(v) ==
    LET f == Split(v, ".")
    IN  IF Len(f) = 4 /\ \A i \in 1..4 : OctetOK(f[i])
        THEN [ok |-> TRUE, val |-> [i \in 1..4 |-> DigitsValue(f[i])]]
        ELSE [ok |-> FALSE, val |-> <<>>]

\* the tcp transcoder: strconv.Atoi, rejected from 65536 up, stored as uint16
ParsePort(v) ==
    LET a == Atoi(v)
    IN  IF a.ok /\ a.val < 65536
        THEN [ok |-> TRUE, val |-> <<a.val % 65536>>]
        ELSE [ok |-> FALSE, val |-> <<>>]

TranscodeValue(name, v) == IF name = P_ip4 THEN ParseIP4(v) ELSE ParsePort(v)

\* the component loop of the parser over the "/"-separated fields
RECURSIVE ParseComponents(_)
ParseComponents(sp) ==
    IF sp = <<>> THEN [ok |-> TRUE, comps |-> <<>>]
    ELSE IF sp[1] \notin ProtocolNames THEN [ok |-> FALSE, comps |-> <<>>]
    ELSE IF ~ProtocolHasValue(sp[1])
    THEN LET r == ParseComponents(Tail(sp))
         IN  [ok |-> r.ok, comps |-> <<[proto |-> sp[1], val |-> <<>>]>> \o r.comps]
    ELSE IF Len(sp) < 2 THEN [ok |-> FALSE, comps |-> <<>>]
    ELSE LET v == TranscodeValue(sp[1], sp[2])
             r == ParseComponents(SubSeq(sp, 3, Len(sp)))
         IN  IF ~v.ok THEN [ok |-> FALSE, comps |-> <<>>]
             ELSE [ok |-> r.ok,
                   comps |-> <<[proto |-> sp[1], val |-> v.val]>> \o r.comps]

\* NewMultiaddr(s): trailing slashes dropped, a leading "/" required, at least
\* one component; the result is the list of (protocol, value) components, a
\* value being a list of numbers (four octets, one port, or none)
NewMultiaddr(s) ==
    LET sp == Split(TrimRight(s, "/"), "/")
    IN  IF sp[1] # <<>> THEN [ok |-> FALSE, comps |-> <<>>]
        ELSE IF Tail(sp) = <<>> THEN [ok |-> FALSE, comps |-> <<>>]
        ELSE LET r == ParseComponents(Tail(sp))
             IN  IF r.ok THEN r ELSE [ok |-> FALSE, comps |-> <<>>]

(***************************************************************************)
(* registerMultiaddrURI                                                    *)
(***************************************************************************)
Builds == {"module.go", "part_000"}

\* the network name each file registers and compares against
NetworkName(b) == IF b = "module.go" THEN "multiaddr:" ELSE "multiaddr"

\* a scheme check that accepts either spelling of the network name
schemeOK_eitherSpelling(b, network) == network \in {"multiaddr", "multiaddr:"}

\* network != "multiaddr:" (module.go) / network != "multiaddr" (part_000)
schemeOK(b, network) == network = NetworkName(b)

\* a slice that keeps the colon: addr[:lastColon+1]
addrBeforeColon_keepsColon(addr, lastColon) == SliceTo(addr, lastColon + 1)

\* addr = addr[:lastColon]
addrBeforeColon(addr, lastColon) == SliceTo(addr, lastColon)

\* the argument of multiaddr.NewMultiaddr: "/" + addr (module.go), addr (part_000)
multiaddrArg(b, addr) == IF b = "module.go" THEN <<"/">> \o addr ELSE addr

\* What a key file holds, as far as the loader looks: whether os.ReadFile
\* succeeds, the Type of the first PEM block ("" when pem.Decode finds none)
\* and what the DER payload decodes to.
KeyFiles ==
    { [name |-> "missing",     readable |-> FALSE, pemType |-> "",                der |-> "none"],
      [name |-> "garbage",     readable |-> TRUE,  pemType |-> "",                der |-> "none"],
      [name |-> "certificate", readable |-> TRUE,  pemType |-> "CERTIFICATE",     der |-> "certificate"],
      [name |-> "pkcs1",       readable |-> TRUE,  pemType |-> "RSA PRIVATE KEY", der |-> "pkcs1-rsa"],
      [name |-> "truncated",   readable |-> TRUE,  pemType |-> "PRIVATE KEY",     der |-> "garbage"],
      [name |-> "x25519",      readable |-> TRUE,  pemType |-> "PRIVATE KEY",     der |-> "pkcs8-x25519"],
      [name |-> "ed25519",     readable |-> TRUE,  pemType |-> "PRIVATE KEY",     der |-> "pkcs8-ed25519"],
      [name |-> "rsa",         readable |-> TRUE,  pemType |-> "PRIVATE KEY",     der |-> "pkcs8-rsa"] }

\* a loader that does not look at the block type
pemTypeOK_anyType(pemType) == TRUE

\* pemBlock.Type != "PRIVATE KEY"
pemTypeOK(pemType) == pemType = "PRIVATE KEY"

\* x509.ParsePKCS8PrivateKey: the Go type of the key it returns
ParsePKCS8PrivateKey(der) ==
    CASE der = "pkcs8-rsa"     -> [ok |-> TRUE,  key |-> "*rsa.PrivateKey"]
      [] der = "pkcs8-ed25519" -> [ok |-> TRUE,  key |-> "ed25519.PrivateKey"]
      [] der = "pkcs8-x25519"  -> [ok |-> TRUE,  key |-> "*ecdh.PrivateKey"]
      [] OTHER                 -> [ok |-> FALSE, key |-> "nil"]

\* if ed25519KeyPointer, ok := stdKey.(ed25519.PrivateKey); ok { stdKey = &ed25519KeyPointer }
ed25519Pointer(stdKey) ==
    IF stdKey = "ed25519.PrivateKey" THEN "*ed25519.PrivateKey" ELSE stdKey

\* crypto.KeyPairFromStdKey: the pointer key types it converts
KeyPairFromStdKey(stdKey) ==
    IF stdKey \in {"*rsa.PrivateKey", "*ecdsa.PrivateKey", "*ed25519.PrivateKey"}
    THEN [ok |-> TRUE,  sk |-> stdKey]
    ELSE [ok |-> FALSE, sk |-> "nil"]

\* the body of `if app.PrivateKey != ""`: the error it returns, the key it
\* leaves in sk and the steps it ran
loadKey(f) ==
    IF ~f.readable
    THEN [err |-> "IOError", sk |-> "nil", stages |-> <<"readfile">>]
    ELSE IF f.pemType = ""
    THEN [err |-> "EnvelopeFormatError", sk |-> "nil", stages |-> <<"readfile", "pem">>]
    ELSE IF ~pemTypeOK(f.pemType)
    THEN [err |-> "UnexpectedKeyType", sk |-> "nil",
          stages |-> <<"readfile", "pem", "pemtype">>]
    ELSE LET std == ParsePKCS8PrivateKey(f.der)
         IN  IF ~std.ok
             THEN [err |-> "KeyDecodeError", sk |-> "nil",
                   stages |-> <<"readfile", "pem", "pemtype", "pkcs8">>]
             ELSE LET kp == KeyPairFromStdKey(ed25519Pointer(std.key))
                  IN  IF ~kp.ok
                      THEN [err |-> "KeyConversionError", sk |-> "nil",
                            stages |-> <<"readfile", "pem", "pemtype", "pkcs8", "convert">>]
                      ELSE [err |-> "nil", sk |-> kp.sk,
                            stages |-> <<"readfile", "pem", "pemtype", "pkcs8", "convert">>]

\* a libp2p.Option
Option(name, arg) == [opt |-> name, arg |-> arg]

\* if sk != nil { opts = append(opts, libp2p.Identity(sk)) }
identityOptions(sk) == IF sk # "nil" THEN <<Option("Identity", sk)>> ELSE <<>>

\* options that hold the routing option whatever the flag
routingOptions_always(AdvertiseAmino) == <<Option("Routing", "dht.ModeClient")>>

\* if app.AdvertiseAmino { opts = append(opts, libp2p.Routing(... dht.ModeClient ...)) }
routingOptions(AdvertiseAmino) ==
    IF AdvertiseAmino THEN <<Option("Routing", "dht.ModeClient")>> ELSE <<>>

\* opts as passed to libp2p.New
hostOptions(ma, sk, AdvertiseAmino) ==
    <<Option("ListenAddrs", ma), Option("DefaultTransports", "default"),
      Option("Transport", "webrtc")>>
    \o identityOptions(sk) \o routingOptions(AdvertiseAmino)

HasOption(opts, name) == \E i \in 1..Len(opts) : opts[i].opt = name
OptionArg(opts, name) == opts[CHOOSE i \in 1..Len(opts) : opts[i].opt = name].arg

NoHost == [built |-> FALSE, addr |-> <<>>, identity |-> "nil", routing |-> "nil"]

\* libp2p.New(opts...): applies the options; fails when a transport cannot
\* be set up, or when the Routing option's constructor (dht.New) fails
libp2pNew(opts, transportFail, dhtFail) ==
    IF transportFail \/ (HasOption(opts, "Routing") /\ dhtFail)
    THEN [ok |-> FALSE, host |-> NoHost]
    ELSE [ok |-> TRUE,
          host |-> [built    |-> TRUE,
                    addr     |-> OptionArg(opts, "ListenAddrs"),
                    identity |-> IF HasOption(opts, "Identity")
                                 THEN OptionArg(opts, "Identity") ELSE "ephemeral",
                    routing  |-> IF HasOption(opts, "Routing")
                                 THEN OptionArg(opts, "Routing") ELSE "nil"]]

NoListener == [open |-> FALSE, host |-> NoHost, tag |-> "", ignoreEOF |-> FALSE]

\* gostream.Listen(h, libp2phttp.ProtocolIDForMultistreamSelect[, gostream.IgnoreEOF()])
gostreamListen(b, h) ==
    [open |-> TRUE, host |-> h, tag |-> "/http/1.1", ignoreEOF |-> (b = "module.go")]

\* the state of a call before it has run
NoCall ==
    [pc |-> "idle", in |-> <<>>, kind |-> "none", err |-> "nil",
     stages |-> <<>>, lastColon |-> -1, port |-> 0, maArg |-> <<>>,
     ma |-> <<>>, opts |-> <<>>, host |-> NoHost, listener |-> NoListener]

\* registerMultiaddrURI(ctx, network, addr, cfg) in build b.  `in` holds the
\* arguments and what the environment answers: whether ctx is a caddy.Context,
\* whether cctx.App("libp2p") fails, the App's fields, the key file and
\* whether transports or dht.New fail.  A record of what the call did.
registerMultiaddrURI(b, in) ==
    LET ret(kind, err, st, more) ==
            [pc |-> "returned", in |-> in, kind |-> kind, err |-> err, stages |-> st,
             lastColon |-> more.lastColon, port |-> more.port, maArg |-> more.maArg,
             ma |-> more.ma, opts |-> more.opts, host |-> more.host,
             listener |-> more.listener]
        m0 == [lastColon |-> -1, port |-> 0, maArg |-> <<>>, ma |-> <<>>,
               opts |-> <<>>, host |-> NoHost, listener |-> NoListener]
    IN
    IF ~in.ctxIsCaddy THEN ret("error", "ContextTypeError", <<"ctx">>, m0)
    ELSE IF ~schemeOK(b, in.network)
    THEN ret("error", "SchemeMismatch", <<"ctx", "scheme">>, m0)
    ELSE
    LET lastColon == LastIndex(in.addr, ":")
        hasPort   == lastColon # Len(in.addr) - 1
        atoi      == IF hasPort THEN Atoi(SliceFrom(in.addr, lastColon + 1))
                     ELSE [ok |-> TRUE, err |-> "nil", val |-> 0]
        port      == atoi.val
        s1        == <<"ctx", "scheme">> \o (IF hasPort THEN <<"atoi">> ELSE <<>>)
        m1        == [m0 EXCEPT !.lastColon = lastColon, !.port = port]
    IN
    IF ~atoi.ok THEN ret("error", "MalformedPort", s1, m1)
    ELSE IF ~SliceToOK(in.addr, lastColon)
    THEN ret("panic", "slice bounds out of range", s1 \o <<"slice">>, m1)
    ELSE
    LET addr  == addrBeforeColon(in.addr, lastColon)
        maArg == multiaddrArg(b, addr)
        ma    == NewMultiaddr(maArg)
        s2    == s1 \o <<"slice", "multiaddr">>
        m2    == [m1 EXCEPT !.maArg = maArg, !.ma = ma.comps]
    IN
    IF ~ma.ok THEN ret("error", "MalformedAddress", s2, m2)
    ELSE IF in.appErr THEN ret("error", "AppLookupError", s2 \o <<"app">>, m2)
    ELSE
    LET key == IF in.PrivateKey # "" THEN loadKey(in.keyFile)
               ELSE [err |-> "nil", sk |-> "nil", stages |-> <<>>]
        s3  == s2 \o <<"app">> \o key.stages
    IN
    IF key.err # "nil" THEN ret("error", key.err, s3, m2)
    ELSE
    LET opts == hostOptions(ma.comps, key.sk, in.AdvertiseAmino)
        h    == libp2pNew(opts, in.transportFail, in.dhtFail)
        s4   == s3 \o <<"libp2p.New">>
        m4   == [m2 EXCEPT !.opts = opts, !.host = h.host]
    IN
    IF ~h.ok THEN ret("error", "HostConstructionError", s4, m4)
    ELSE ret("listener", "nil", s4 \o <<"gostream.Listen">>,
             [m4 EXCEPT !.listener = gostreamListen(b, h.host)])

(***************************************************************************)
(* Inputs of the registration                                              *)
(***************************************************************************)
S_ip4tcp == <<"/", "i", "p", "4", "/", "0", ".", "0", ".", "0", ".", "0", "/", "t", "c", "p", "/", "4", "0", "0", "1">>
S_ip4tcpBare == <<"i", "p", "4", "/", "0", ".", "0", ".", "0", ".", "0", "/", "t", "c", "p", "/", "4", "0", "0", "1">>
S_tls == <<"/", "t", "l", "s">>
S_tlsBare == <<"t", "l", "s">>
S_tcp1 == <<"/", "t", "c", "p", "/", "1">>
S_tcpNoVal == <<"/", "t", "c", "p">>
S_tcpBig == <<"/", "t", "c", "p", "/", "6", "5", "5", "3", "6">>
S_ip4Bad == <<"/", "i", "p", "4", "/", "2", "5", "6", ".", "0", ".", "0", ".", "1">>
S_bogus == <<"/", "x", "y", "z">>
S_tlsSlash == <<"/", "t", "l", "s", "/">>
T_4001 == <<":", "4", "0", "0", "1">>
T_0 == <<":", "0">>
T_neg5 == <<":", "-", "5">>
T_plus5 == <<":", "+", "5">>
T_abc == <<":", "a", "b", "c">>
T_40a == <<":", "4", "0", "a">>
T_minus == <<":", "-">>
T_huge == <<":", "9", "9", "9", "9", "9", "9", "9", "9", "9", "9", "9", "9", "9", "9", "9", "9", "9", "9", "9", "9">>
T_colon == <<":">>
D_4001 == <<"4", "0", "0", "1">>

AddrAlphabet == {"/", ":", "1"}

\* every string over AddrAlphabet of length at most MaxAddrLen
ShortAddrs == UNION { [1..n -> AddrAlphabet] : n \in 0..MaxAddrLen }

AddrBases == {<<>>, S_ip4tcp, S_ip4tcpBare, S_tls, S_tlsBare, S_tcp1, S_tcpNoVal,
              S_tcpBig, S_ip4Bad, S_bogus, S_tlsSlash}
AddrTails == {<<>>, T_colon, T_4001, T_0, T_neg5, T_plus5, T_abc, T_40a, T_minus,
              T_huge, T_colon \o T_4001}

RawAddrs == ShortAddrs \cup {D_4001} \cup { a \o t : a \in AddrBases, t \in AddrTails }

Networks == {"multiaddr", "multiaddr:", "tcp"}

KeyFile(name) == CHOOSE f \in KeyFiles : f.name = name

\* App.PrivateKey with the file it names; no file is read for the empty path
KeyConfigs ==
    {[PrivateKey |-> "", keyFile |-> KeyFile("missing")]}
    \cup {[PrivateKey |-> "key.pem", keyFile |-> f] : f \in KeyFiles}

RegInputs ==
    { [ctxIsCaddy |-> c, network |-> n, addr |-> a, appErr |-> e,
       PrivateKey |-> k.PrivateKey, keyFile |-> k.keyFile, AdvertiseAmino |-> r,
       transportFail |-> t, dhtFail |-> d] :
      c \in BOOLEAN, n \in Networks, a \in RawAddrs, e \in BOOLEAN,
      k \in KeyConfigs, r \in BOOLEAN, t \in BOOLEAN, d \in BOOLEAN }

(***************************************************************************)
(* Libp2pHandler                                                           *)
(***************************************************************************)
\* a Go map as a function on its key set
EmptyMap == [k \in {} |-> [Path |-> ""]]
MapSet(m, k, v) == [x \in DOMAIN m \cup {k} |-> IF x = k THEN v ELSE m[x]]

\* The body of a well_known-libp2p block as the Dispenser walks it: the
\* tokens in order, each with the line it stands on.
Flatten(lines) ==
    LET RECURSIVE go(_)
        go(i) == IF i > Len(lines) THEN <<>>
                 ELSE [j \in 1..Len(lines[i]) |-> [tok |-> lines[i][j], line |-> i]]
                      \o go(i + 1)
    IN  go(1)

\* d.NextArg(): there is a next token and it stands on the current line
NextArg(toks, i) == i + 1 <= Len(toks) /\ toks[i + 1].line = toks[i].line

\* the loop `for d.NextBlock(0) { ... }` of UnmarshalCaddyfile from token i on,
\* with the map built so far
RECURSIVE unmarshalLoop(_, _, _)
unmarshalLoop(toks, i, m) ==
    IF i > Len(toks) THEN [err |-> "nil", map |-> m]
    ELSE IF ~NextArg(toks, i) THEN [err |-> "ArgErr", map |-> m]
    ELSE IF toks[i + 1].tok # "=>" THEN [err |-> "expected =>", map |-> m]
    ELSE IF ~NextArg(toks, i + 1) THEN [err |-> "ArgErr", map |-> m]
    ELSE unmarshalLoop(toks, i + 3,
                       MapSet(m, toks[i].tok, [Path |-> toks[i + 2].tok]))

\* a merge that keeps the first path of a key
AddProtocolMeta_keepFirst(m, p, meta) == IF p \in DOMAIN m THEN m ELSE MapSet(m, p, meta)

\* h.wellKnownMapping[p] = protocolMeta
AddProtocolMeta(m, p, meta) == MapSet(m, p, meta)

\* for k, v := range l.ParsedProtosMap { l.h.WellKnownHandler.AddProtocolMeta(k, v) }
RECURSIVE provisionLoop(_, _, _)
provisionLoop(wk, ppm, keys) ==
    IF keys = {} THEN wk
    ELSE LET k == CHOOSE x \in keys : TRUE
         IN  provisionLoop(AddProtocolMeta(wk, k, ppm[k]), ppm, keys \ {k})

\* libp2phttp.WellKnownProtocols, "/.well-known/libp2p/protocols", as its
\* "/"-separated segments
WellKnownProtocols == <<".well-known", "libp2p", "protocols">>

\* a prefix match in place of equality
isWellKnownPath_prefix(path) ==
    Len(path) >= Len(WellKnownProtocols)
    /\ SubSeq(path, 1, Len(WellKnownProtocols)) = WellKnownProtocols

\* r.URL.Path == libp2phttp.WellKnownProtocols
isWellKnownPath(path) == path = WellKnownProtocols

\* ServeHTTP(w, r, next): which handler it calls, with what, and what it returns
serveHTTP(r, nextRet) ==
    IF isWellKnownPath(r.path)
    THEN [done |-> TRUE, path |-> r.path, method |-> r.method, nextRet |-> nextRet,
          responderCalls |-> 1, nextCalls |-> 0, nextReq |-> <<>>, ret |-> "nil"]
    ELSE [done |-> TRUE, path |-> r.path, method |-> r.method, nextRet |-> nextRet,
          responderCalls |-> 0, nextCalls |-> 1, nextReq |-> <<r>>, ret |-> nextRet]

(***************************************************************************)
(* Inputs of the handler                                                   *)
(***************************************************************************)
\* the well-formed lines `key => value` used below, and malformed ones: no
\* separator and value, no value, no separator, a stray fourth token
GoodLines == { <<"a", "=>", "/x">>, <<"a", "=>", "/y">>,
               <<"b", "=>", "/z">>, <<"b", "=>", "/x">> }
BadLines == { <<"a">>, <<"a", "=>">>, <<"a", "/x">>, <<"a", "=>", "/x", "b">> }
TwoOnOneLine == <<"a", "=>", "/x", "b", "=>", "/y">>
Lines == GoodLines \cup BadLines \cup {TwoOnOneLine}

\* the blocks of at most two lines, the first of two being well-formed
ConfigBlocks ==
    {<<>>} \cup { <<l>> : l \in Lines }
    \cup { <<l, n>> : l \in GoodLines, n \in GoodLines \cup BadLines }

\* every map a block decodes to without error
ProtoMaps ==
    { unmarshalLoop(Flatten(b), 1, EmptyMap).map :
        b \in { c \in ConfigBlocks : unmarshalLoop(Flatten(c), 1, EmptyMap).err = "nil" } }

RequestPaths ==
    { WellKnownProtocols,
      <<".well-known", "libp2p", "protocols", "">>,
      <<".well-known", "libp2p", "protocols", "a">>,
      <<".well-known", "libp2p">>,
      <<".Well-Known", "libp2p", "protocols">>,
      <<>>,
      <<"index.html">> }
Methods == {"GET", "POST", "OPTIONS"}
Requests == { [method |-> m, path |-> p] : m \in Methods, p \in RequestPaths }

(***************************************************************************)
(* Specification of the registration                                       *)
(***************************************************************************)
NoServed ==
    [done |-> FALSE, path |-> <<>>, method |-> "", nextRet |-> "nil",
     responderCalls |-> 0, nextCalls |-> 0, nextReq |-> <<>>, ret |-> "nil"]

InitHandler ==
    /\ ParsedProtosMap = EmptyMap
    /\ unmarshalErr = "nil"
    /\ wellKnownMapping = EmptyMap
    /\ provisioned = <<>>
    /\ served = NoServed

Init ==
    /\ build \in Builds
    /\ call = NoCall
    /\ InitHandler

\* Libp2pHandler is part of module.go only
InitModule == Init /\ build = "module.go"

\* caddy calls the registered listener function once for a listen address
Register ==
    /\ call.pc = "idle"
    /\ \E in \in RegInputs : call' = registerMultiaddrURI(build, in)
    /\ UNCHANGED <<build, handlerVars>>

NextReg == Register

SpecReg == Init /\ [][NextReg]_vars

(***************************************************************************)
(* Actions and specifications of the handler                               *)
(***************************************************************************)
\* UnmarshalCaddyfile(d): a fresh map, filled line by line until an error
UnmarshalCaddyfile ==
    \E block \in ConfigBlocks :
        LET r == unmarshalLoop(Flatten(block), 1, EmptyMap)
        IN  /\ ParsedProtosMap' = r.map
            /\ unmarshalErr' = r.err
            /\ UNCHANGED <<wellKnownMapping, provisioned, served, regVars>>

\* Provision(ctx)
Provision ==
    /\ Len(provisioned) < MaxProvisions
    /\ wellKnownMapping' =
           provisionLoop(wellKnownMapping, ParsedProtosMap, DOMAIN ParsedProtosMap)
    /\ provisioned' = Append(provisioned, ParsedProtosMap)
    /\ UNCHANGED <<ParsedProtosMap, unmarshalErr, served, regVars>>

\* ServeHTTP(w, r, next)
ServeHTTP ==
    \E r \in Requests, nextRet \in {"nil", "next failed"} :
        /\ served' = serveHTTP(r, nextRet)
        /\ UNCHANGED <<ParsedProtosMap, unmarshalErr, wellKnownMapping, provisioned,
                       regVars>>

NextProvision == UnmarshalCaddyfile \/ Provision

SpecProvision == InitModule /\ [][NextProvision]_vars

\* a handler decoded from its configuration, before any request
InitServe ==
    /\ build = "module.go"
    /\ call = NoCall
    /\ ParsedProtosMap \in ProtoMaps
    /\ unmarshalErr = "nil"
    /\ wellKnownMapping = EmptyMap
    /\ provisioned = <<>>
    /\ served = NoServed

NextServe == Provision \/ ServeHTTP

SpecServe == InitServe /\ [][NextServe]_vars

\* The whole program.  The registration and the handler share no state, so
\* the properties of each are checked under SpecReg, SpecProvision and
\* SpecServe, whose behaviours are the projections of Spec's.
Next == Register \/ UnmarshalCaddyfile \/ Provision \/ ServeHTTP

Spec == Init /\ [][Next]_vars

(***************************************************************************)
(* Properties of the registration (checked under SpecReg)                  *)
(***************************************************************************)
Returned == call.pc = "returned"
Ran(stage) == \E i \in 1..Len(call.stages) : call.stages[i] = stage

\* the call got past the context and scheme checks
PastScheme == Returned /\ call.in.ctxIsCaddy /\ call.in.network = NetworkName(build)

HasColon(raw) == \E i \in 1..Len(raw) : raw[i] = ":"
NoColonIn(t) == \A i \in 1..Len(t) : t[i] # ":"

\* raw = A ":" T with no colon in T: the text before and after the last colon
BeforeLastColon(raw) ==
    CHOOSE A \in { SubSeq(raw, 1, k) : k \in 0..Len(raw) } :
        \E T \in { SubSeq(raw, k, Len(raw)) : k \in 1..(Len(raw) + 1) } :
            raw = A \o <<":">> \o T /\ NoColonIn(T)
AfterLastColon(raw) ==
    CHOOSE T \in { SubSeq(raw, k, Len(raw)) : k \in 1..(Len(raw) + 1) } :
        raw = BeforeLastColon(raw) \o <<":">> \o T /\ NoColonIn(T)

\* an unsigned decimal numeral that fits Go's int
PortNumeral(t) ==
    t # <<>> /\ (\A i \in 1..Len(t) : t[i] \in Digits) /\ FitsInt(FALSE, t)
PortOf(t) == IF t = <<>> THEN 0 ELSE DigitsValue(StripLeadingZeros(t))

\* text that denotes a non-negative integer: digits, "+" digits, or "-" zeros
DenotesNonNegative(t) ==
    \/ PortNumeral(t)
    \/ t # <<>> /\ t[1] = "+" /\ PortNumeral(Tail(t))
    \/ t # <<>> /\ t[1] = "-" /\ Tail(t) # <<>> /\ \A i \in 2..Len(t) : t[i] = "0"

NothingBuilt ==
    /\ ~Ran("libp2p.New")
    /\ ~call.host.built
    /\ call.listener = NoListener
    /\ call.kind # "listener"

\* the structured address /ip4/0.0.0.0/tcp/4001
Ip4Tcp4001 == <<[proto |-> P_ip4, val |-> <<0, 0, 0, 0>>], [proto |-> P_tcp, val |-> <<4001>>]>>

C2_PortValidation ==
    (PastScheme /\ HasColon(call.in.addr)) =>
        LET T == AfterLastColon(call.in.addr)
        IN  (T # <<>> /\ ~DenotesNonNegative(T)) =>
                /\ call.err = "MalformedPort"
                /\ ~Ran("multiaddr")
                /\ NothingBuilt

\* C3 as stated: a network other than the reserved one gets SchemeMismatch and
\* no later stage; host construction is reached only with the reserved one.
C3_SchemeRejected ==
    /\ (Returned /\ call.in.network # NetworkName(build)) =>
          /\ call.err = "SchemeMismatch"
          /\ \A st \in {"atoi", "slice", "multiaddr", "app", "readfile"} : ~Ran(st)
          /\ NothingBuilt
    /\ (Returned /\ Ran("libp2p.New")) => call.in.network = NetworkName(build)

\* C3 amended: a network other than the reserved one gets an error and no
\* later stage: SchemeMismatch when the context is a caddy.Context, and
\* ContextTypeError (the earlier check) when it is not; host construction is
\* reached only with the reserved network.
C3_SchemeOrContextRejected ==
    /\ (Returned /\ call.in.network # NetworkName(build)) =>
          /\ call.kind = "error"
          /\ call.err = (IF call.in.ctxIsCaddy THEN "SchemeMismatch"
                         ELSE "ContextTypeError")
          /\ \A st \in {"atoi", "slice", "multiaddr", "app", "readfile"} : ~Ran(st)
          /\ NothingBuilt
    /\ (Returned /\ Ran("libp2p.New")) => call.in.network = NetworkName(build)

\* C3 witness: a valid address under a wrong network, rejected at the scheme check
C3_Witness ==
    /\ Returned /\ call.in.ctxIsCaddy
    /\ call.in.network # NetworkName(build)
    /\ call.in.addr = S_ip4tcp \o T_4001
    /\ call.err = "SchemeMismatch"
    /\ call.stages = <<"ctx", "scheme">>

\* C4: with a key path set and the key file read, an unreadable file, a missing
\* PEM block, a block of another type, an undecodable payload and an
\* unconvertible key each return their own error before host construction; a
\* call that returns an error returns no listener, and a listener is returned
\* only after every stage succeeded.
C4_KeyFailuresPrecedeHost ==
    /\ (Returned /\ call.in.PrivateKey # "" /\ Ran("readfile")) =>
          LET f == call.in.keyFile
              expected ==
                  CASE ~f.readable                -> "IOError"
                    [] f.name = "garbage"          -> "EnvelopeFormatError"
                    [] f.name \in {"certificate", "pkcs1"} -> "UnexpectedKeyType"
                    [] f.name = "truncated"        -> "KeyDecodeError"
                    [] f.name = "x25519"           -> "KeyConversionError"
                    [] OTHER                       -> "nil"
          IN  IF expected # "nil"
              THEN call.err = expected /\ call.kind = "error" /\ NothingBuilt
              ELSE Ran("libp2p.New") /\ call.opts[4] = Option("Identity",
                       IF f.name = "rsa" THEN "*rsa.PrivateKey" ELSE "*ed25519.PrivateKey")
    /\ (Returned /\ call.in.PrivateKey # "" /\ PastScheme
          /\ call.err \notin {"MalformedPort", "MalformedAddress", "AppLookupError"}
          /\ call.kind # "panic") => Ran("readfile")
    /\ (Returned /\ call.err # "nil") => call.kind # "listener" /\ call.listener = NoListener
    /\ (Returned /\ call.kind = "listener") =>
          /\ call.err = "nil"
          /\ call.in.ctxIsCaddy /\ call.in.network = NetworkName(build)
          /\ ~call.in.appErr /\ ~call.in.transportFail
          /\ call.listener.open /\ call.listener.host.built
          /\ (call.in.PrivateKey # "" => call.in.keyFile.name \in {"rsa", "ed25519"})
          /\ Ran("multiaddr") /\ Ran("app") /\ Ran("libp2p.New") /\ Ran("gostream.Listen")

\* C4 witness: a PEM block of the wrong type stops the call before the host
C4_Witness ==
    /\ Returned /\ call.in.PrivateKey # ""
    /\ call.in.keyFile.name = "pkcs1"
    /\ call.err = "UnexpectedKeyType"
    /\ Ran("pemtype") /\ ~Ran("libp2p.New")

\* C5: the options given to libp2p.New hold the client-mode routing option
\* exactly when AdvertiseAmino is set; a returned host has the routing
\* capability exactly when it is set; and when it is set and dht.New fails the
\* call fails with no host and no listener.
C5_RoutingIffAdvertiseAmino ==
    /\ (Returned /\ Ran("libp2p.New")) =>
          /\ HasOption(call.opts, "Routing") <=> call.in.AdvertiseAmino
          /\ \A i \in 1..Len(call.opts) :
                call.opts[i].opt = "Routing" => call.opts[i].arg = "dht.ModeClient"
    /\ (Returned /\ call.kind = "listener") =>
          call.listener.host.routing =
              (IF call.in.AdvertiseAmino THEN "dht.ModeClient" ELSE "nil")
    /\ (Returned /\ Ran("libp2p.New") /\ call.in.AdvertiseAmino /\ call.in.dhtFail) =>
          /\ call.kind = "error"
          /\ call.err = "HostConstructionError"
          /\ ~call.host.built
          /\ call.listener = NoListener

\* C5 witness: a listener on a host with client-mode routing
C5_Witness ==
    /\ Returned /\ call.in.AdvertiseAmino
    /\ call.kind = "listener"
    /\ call.listener.host.routing = "dht.ModeClient"

\* C10 as stated: for every raw address the parse step returns a result or a
\* MalformedPort / MalformedAddress error and never aborts; an address without
\* a numeric or empty segment after a last colon ends in one of the two errors.
C10_ParseTotal ==
    PastScheme =>
        /\ call.kind # "panic"
        /\ LET raw == call.in.addr
               wellFormed == /\ HasColon(raw)
                             /\ \/ AfterLastColon(raw) = <<>>
                                \/ PortNumeral(AfterLastColon(raw))
           IN  ~wellFormed => call.err \in {"MalformedPort", "MalformedAddress"}

(***************************************************************************)
(* Properties of the handler (checked under SpecProvision and SpecServe)   *)
(***************************************************************************)
\* the map the provisioned configurations call for: every key of any of
\* them, with the path of the latest one that holds it
ExpectedMapping(hist) ==
    LET keys == UNION { DOMAIN hist[i] : i \in 1..Len(hist) }
        latest(k) == CHOOSE i \in 1..Len(hist) :
                         /\ k \in DOMAIN hist[i]
                         /\ \A j \in (i + 1)..Len(hist) : k \notin DOMAIN hist[j]
    IN  [k \in keys |-> hist[latest(k)][k]]

Map_aX == [k \in {"a"} |-> [Path |-> "/x"]]
Map_aY_bZ == [k \in {"a", "b"} |-> [Path |-> IF k = "a" THEN "/y" ELSE "/z"]]

\* C8: after any sequence of Provision calls the responder's map holds exactly
\* the keys of the provisioned configurations, each with the path of the
\* latest configuration that contained it; {a=>/x} then {a=>/y, b=>/z} yields
\* {a=>/y, b=>/z}, and provisioning one configuration twice yields what
\* provisioning it once does.
C8_MergeLastWriteWins ==
    /\ wellKnownMapping = ExpectedMapping(provisioned)
    /\ (provisioned = <<Map_aX, Map_aY_bZ>> => wellKnownMapping = Map_aY_bZ)
    /\ \A i \in 2..Len(provisioned) :
          (i = Len(provisioned) /\ provisioned[i] = provisioned[i - 1]) =>
              wellKnownMapping = ExpectedMapping(SubSeq(provisioned, 1, i - 1))

\* C8 witness: {a=>/x} then {a=>/y, b=>/z} have been provisioned
C8_Witness ==
    /\ provisioned = <<Map_aX, Map_aY_bZ>>
    /\ wellKnownMapping = Map_aY_bZ

\* C9: every request, whatever its method, goes to exactly one of the two
\* handlers: on the discovery path the responder is called once, next is not
\* called and nil is returned; on any other path the responder is not called,
\* next is called once with the same request and its result is returned; and
\* handling a request leaves the metadata map as it was.
C9_InterceptionPartition ==
    [][ served' # served =>
          /\ served'.done
          /\ IF served'.path = <<".well-known", "libp2p", "protocols">>
             THEN /\ served'.responderCalls = 1
                  /\ served'.nextCalls = 0
                  /\ served'.ret = "nil"
             ELSE /\ served'.responderCalls = 0
                  /\ served'.nextCalls = 1
                  /\ served'.nextReq =
                         <<[method |-> served'.method, path |-> served'.path]>>
                  /\ served'.ret = served'.nextRet
          /\ wellKnownMapping' = wellKnownMapping ]_vars

\* C9 witness: a POST to the discovery path answered by the responder of a
\* provisioned handler
C9_Witness ==
    /\ served.done
    /\ served.method = "POST"
    /\ served.path = WellKnownProtocols
    /\ served.responderCalls = 1 /\ served.nextCalls = 0
    /\ wellKnownMapping # EmptyMap

====
